---- MODULE Spec2Model ----
(***************************************************************************)
(* A model of src/pdf-rag-sdk.js (class PDFRagSDK): the chunker, the retry *)
(* policy, and the document pipeline over the shared vector store.         *)
(*                                                                         *)
(* A text is a sequence of one-character strings.  Three specifications    *)
(* share the variables below:                                              *)
(*   SpecChunk  one call of chunkText on a bounded text,                   *)
(*   SpecRetry  one call of retryWithBackoff on a fallible operation,      *)
(*   SpecStore  concurrent addDocument / searchSimilar / askAboutDocuments *)
(*              / deleteDocumentByFilename invocations on one store.       *)
(***************************************************************************)
EXTENDS Integers, Sequences, FiniteSets, TLC

VARIABLES
  \* chunkText call
  cpc, text, maxChunkSize, chunks,
  \* retryWithBackoff call
  rpc, retries, delay, attempt, events, outcome,
  \* the documents table and the invocations sharing it
  rows, nextId, inv, cleanSince

chunkVars == <<cpc, text, maxChunkSize, chunks>>
retryVars == <<rpc, retries, delay, attempt, events, outcome>>
storeVars == <<rows, nextId, inv, cleanSince>>
vars == <<cpc, text, maxChunkSize, chunks,
          rpc, retries, delay, attempt, events, outcome,
          rows, nextId, inv, cleanSince>>

(***************************************************************************)
(* Bounds of the model.                                                    *)
(***************************************************************************)
MaxLen == 8          \* longest text handed to chunkText in SpecChunk
MaxChunk == 1        \* largest maxChunkSize in SpecChunk (bound = 4 * it)

(***************************************************************************)
(* Characters.                                                             *)
(***************************************************************************)
Terminators == {".", "!", "?"}
Whitespace == {" ", "\n", "\t", "\r"}
Alphabet == {"a", ".", "\n", " "}

RECURSIVE Concat(_)
Concat(ss) == IF ss = <<>> THEN <<>> ELSE Head(ss) \o Concat(Tail(ss))

\* The texts of length at most n over Alphabet.
TextsUpTo(n) == UNION {[1..k -> Alphabet] : k \in 0..n}

(***************************************************************************)
(* chunkText works on characters that remember where they came from: a     *)
(* tagged character is <<c, i>>, c the character and i its index in the    *)
(* input (0 for a separator chunkText inserts).  The tag is never read by  *)
(* the algorithm; it lets a property tell a repeated slice of the input    *)
(* from two equal slices.                                                  *)
(***************************************************************************)
Ch(e) == e[1]
Tag(t) == [i \in 1..Len(t) |-> <<t[i], i>>]
Untag(tt) == [i \in 1..Len(tt) |-> Ch(tt[i])]
Sep(s) == [i \in 1..Len(s) |-> <<s[i], 0>>]

\* The last index of the maximal run of elements satisfying Test that starts
\* at i (i - 1 when t[i] does not satisfy it).
RECURSIVE RunEnd(_, _, _)
RunEnd(t, i, S) ==
  IF i <= Len(t) /\ Ch(t[i]) \in S THEN RunEnd(t, i + 1, S) ELSE i - 1

RECURSIVE RunEndNot(_, _, _)
RunEndNot(t, i, S) ==
  IF i <= Len(t) /\ Ch(t[i]) \notin S THEN RunEndNot(t, i + 1, S) ELSE i - 1

(***************************************************************************)
(* text.split(/\n\s*\n/): a separator starts at the leftmost newline that  *)
(* is followed, inside the same run of whitespace, by another newline, and *)
(* (the \s* being greedy) ends at the last newline of that run.  The text  *)
(* after the last separator is a piece even when it is empty.              *)
(***************************************************************************)
RECURSIVE SplitFrom(_, _, _)
SplitFrom(t, i, start) ==
  IF i > Len(t) THEN << SubSeq(t, start, Len(t)) >>
  ELSE IF Ch(t[i]) # "\n" THEN SplitFrom(t, i + 1, start)
  ELSE LET e == RunEnd(t, i, Whitespace)
           nl == {j \in (i + 1)..e : Ch(t[j]) = "\n"}
       IN IF nl = {} THEN SplitFrom(t, i + 1, start)
          ELSE LET l == CHOOSE j \in nl : \A k \in nl : k <= j
               IN << SubSeq(t, start, i - 1) >> \o SplitFrom(t, l + 1, l + 1)

splitParagraphs(t) == SplitFrom(t, 1, 1)

(***************************************************************************)
(* para.match(/[^\.!\?]+[\.!\?]+/g): every maximal run of non-terminators  *)
(* that is followed by a terminator, with the whole run of terminators     *)
(* after it.  Terminators at the start of the paragraph and the text after *)
(* the last terminator belong to no match.                                 *)
(***************************************************************************)
RECURSIVE MatchFrom(_, _)
MatchFrom(p, i) ==
  LET s == RunEnd(p, i, Terminators) + 1     \* first non-terminator
      n == RunEndNot(p, s, Terminators)      \* end of the [^.!?]+ run
      e == RunEnd(p, n + 1, Terminators)     \* end of the [.!?]+ run
  IN IF s > Len(p) \/ n >= Len(p) THEN <<>>
     ELSE << SubSeq(p, s, e) >> \o MatchFrom(p, e + 1)

\* para.match(...) || [para]
matchSentences(p) ==
  LET m == MatchFrom(p, 1) IN IF m = <<>> THEN << p >> ELSE m

(***************************************************************************)
(* The loop over the sentences of an oversized paragraph (lines 52-59).    *)
(* st is [chunks, currentChunk]; currentChunk is whatever the paragraph    *)
(* loop left in it.                                                        *)
(***************************************************************************)
SentenceStep(st, sentence, max) ==
  IF Len(st.currentChunk \o sentence) <= max * 4
  THEN [st EXCEPT !.currentChunk =
          @ \o (IF @ # <<>> THEN Sep(<<" ">>) ELSE <<>>) \o sentence]
  ELSE [chunks |-> IF st.currentChunk # <<>>
                   THEN Append(st.chunks, st.currentChunk) ELSE st.chunks,
        currentChunk |-> sentence]

RECURSIVE SentenceLoop(_, _, _)
SentenceLoop(st, sentences, max) ==
  IF sentences = <<>> THEN st
  ELSE SentenceLoop(SentenceStep(st, Head(sentences), max), Tail(sentences), max)

(***************************************************************************)
(* One iteration of the loop over the paragraphs (lines 42-62).            *)
(***************************************************************************)
ParaStep(st, para, max) ==
  IF Len(st.currentChunk \o para) <= max * 4
  THEN [st EXCEPT !.currentChunk =
          @ \o (IF @ # <<>> THEN Sep(<<"\n", "\n">>) ELSE <<>>) \o para]
  ELSE LET flushed == IF st.currentChunk # <<>>
                      THEN Append(st.chunks, st.currentChunk) ELSE st.chunks
       IN IF Len(para) <= max * 4
          THEN [chunks |-> flushed, currentChunk |-> para]
          ELSE SentenceLoop([chunks |-> flushed, currentChunk |-> st.currentChunk],
                            matchSentences(para), max)

RECURSIVE ParaLoop(_, _, _)
ParaLoop(st, paragraphs, max) ==
  IF paragraphs = <<>> THEN st
  ELSE ParaLoop(ParaStep(st, Head(paragraphs), max), Tail(paragraphs), max)

\* chunkText on tagged characters: the chunks, each a sequence of tagged
\* characters.
chunkTagged(t, max) ==
  LET st == ParaLoop([chunks |-> <<>>, currentChunk |-> <<>>],
                     splitParagraphs(t), max)
  IN IF st.currentChunk # <<>> THEN Append(st.chunks, st.currentChunk)
     ELSE st.chunks

\* chunkText(text, maxChunkSize)
chunkText(t, max) ==
  LET cs == chunkTagged(Tag(t), max) IN [k \in 1..Len(cs) |-> Untag(cs[k])]

(***************************************************************************)
(* retryWithBackoff (lines 68-79).                                         *)
(***************************************************************************)
MaxRetries == 4      \* largest `retries` argument in SpecRetry
MaxDelay == 2        \* largest `delay` argument in SpecRetry
Values == {"v1", "v2"}     \* what fn may resolve to
Errors == {"e1", "e2"}     \* what fn may reject with

\* A variant of IsFinalAttempt that is one attempt late (attempt === retries).
IsFinalAttemptLate(a, r) == a = r

\* attempt === retries - 1 (line 73)
IsFinalAttempt(a, r) == a = r - 1

\* A variant of WaitTime that grows linearly (delay * (attempt + 1)).
WaitTimeLinear(d, a) == d * (a + 1)

\* delay * 2 ** attempt (line 74)
WaitTime(d, a) == d * 2 ^ a

RetryOff ==
  /\ rpc = "off" /\ retries = 0 /\ delay = 0 /\ attempt = 0
  /\ events = <<>> /\ outcome = <<"none">>

ChunkOff ==
  /\ cpc = "off" /\ text = <<>> /\ maxChunkSize = 0 /\ chunks = <<>>

StoreOff ==
  /\ rows = {} /\ nextId = 0 /\ inv = <<>> /\ cleanSince = {}

\* The call: `attempt = 0` and the arguments.
RetryInit ==
  /\ rpc = "loop"
  /\ retries \in 0..MaxRetries
  /\ delay \in 1..MaxDelay
  /\ attempt = 0
  /\ events = <<>>
  /\ outcome = <<"none">>

\* for (...; attempt < retries; ...) { try { return await fn(); (lines 69-71)
RetryInvoke ==
  /\ rpc = "loop" /\ attempt < retries
  /\ events' = Append(events, <<"call">>)
  /\ rpc' = "calling"
  /\ UNCHANGED <<retries, delay, attempt, outcome>>
  /\ UNCHANGED <<chunkVars, storeVars>>

\* The loop ends without a return or a throw (only when retries < 1): the
\* async function resolves to undefined.
RetryLoopExit ==
  /\ rpc = "loop" /\ ~(attempt < retries)
  /\ rpc' = "returned"
  /\ outcome' = <<"value", "undefined">>
  /\ UNCHANGED <<retries, delay, attempt, events>>
  /\ UNCHANGED <<chunkVars, storeVars>>

\* fn() resolves: return its value (line 71)
FnResolves ==
  /\ rpc = "calling"
  /\ \E v \in Values :
       /\ events' = Append(events, <<"ok", v>>)
       /\ outcome' = <<"value", v>>
  /\ rpc' = "returned"
  /\ UNCHANGED <<retries, delay, attempt>>
  /\ UNCHANGED <<chunkVars, storeVars>>

\* fn() rejects: catch (err) (line 72)
FnRejects ==
  /\ rpc = "calling"
  /\ \E e \in Errors :
       /\ events' = Append(events, <<"fail", e>>)
       /\ outcome' = <<"error", e>>
  /\ rpc' = "caught"
  /\ UNCHANGED <<retries, delay, attempt>>
  /\ UNCHANGED <<chunkVars, storeVars>>

\* The catch block (lines 73-76): rethrow on the final attempt, else start
\* the timer.
RetryCatch ==
  /\ rpc = "caught"
  /\ IF IsFinalAttempt(attempt, retries)
     THEN /\ rpc' = "threw"
          /\ UNCHANGED events
     ELSE /\ rpc' = "waiting"
          /\ events' = Append(events, <<"wait", WaitTime(delay, attempt)>>)
  /\ UNCHANGED <<retries, delay, attempt, outcome>>
  /\ UNCHANGED <<chunkVars, storeVars>>

\* The timer fires; attempt++ (lines 76, 69)
RetryTimer ==
  /\ rpc = "waiting"
  /\ rpc' = "loop"
  /\ attempt' = attempt + 1
  /\ UNCHANGED <<retries, delay, events, outcome>>
  /\ UNCHANGED <<chunkVars, storeVars>>

RetryNext ==
  \/ RetryInvoke
  \/ RetryLoopExit
  \/ FnResolves
  \/ FnRejects
  \/ RetryCatch
  \/ RetryTimer

InitRetry == RetryInit /\ ChunkOff /\ StoreOff

SpecRetry == InitRetry /\ [][RetryNext]_vars

(***************************************************************************)
(* One call of chunkText (lines 37-66).                                    *)
(***************************************************************************)
ChunkInit ==
  /\ cpc = "called"
  /\ text \in TextsUpTo(MaxLen)
  /\ maxChunkSize \in 0..MaxChunk
  /\ chunks = <<>>

ChunkTextReturns ==
  /\ cpc = "called"
  /\ chunks' = chunkTagged(Tag(text), maxChunkSize)
  /\ cpc' = "returned"
  /\ UNCHANGED <<text, maxChunkSize>>
  /\ UNCHANGED <<retryVars, storeVars>>

ChunkNext == ChunkTextReturns

InitChunk == ChunkInit /\ RetryOff /\ StoreOff

SpecChunk == InitChunk /\ [][ChunkNext]_vars

(***************************************************************************)
(* The document pipeline (lines 110-267) over the documents table.         *)
(*                                                                         *)
(* rows is the table, nextId the SERIAL sequence of its id column.  inv[p] *)
(* is the invocation running in slot p: its operation, its position (the   *)
(* await it is suspended at), its locals, and `trace`, the requests it has *)
(* made to the collaborators so far.  cleanSince and inv[p].clean are      *)
(* history variables: the filenames whose delete has returned with no      *)
(* addDocument for that filename started since, now and (clean) since the  *)
(* retrieval in slot p began.                                              *)
(***************************************************************************)
MaxIds == 2          \* rows ever inserted
MaxLimit == 2        \* largest `limit` / `contextLimit` argument
chunkSize == 1       \* this.chunkSize (800 at line 34) scaled down, so that
                     \* a document of a few characters spans several chunks
DefaultRetries == 3  \* retries = 3 (line 68)

Procs == {1, 2}              \* the slots: two invocations may be in flight
Query == <<"a", "?">>        \* the query / question text of the retrievals
Answers == {"generated"}     \* what the completion client may return
NoDocsAnswer == "I don't have any relevant documents to answer your question."

\* The files on disk: path |-> extracted text.  A path not listed cannot be
\* read.
Files ==
  (<<"x", "/", "f">> :> <<"b", "b", "b", "\n", "\n", "a", "a", "a">>) @@
  (<<"y", "/", "g">> :> <<"a", "!">>) @@
  (<<"w">> :> <<" ", "\n", " ">>) @@
  (<<"e">> :> <<>>)
Paths == DOMAIN Files \cup { <<"n">> }

\* filePath.split('/').pop() (line 130): what follows the last "/".
filenameOf(path) ==
  LET sl == {i \in 1..Len(path) : path[i] = "/"}
      last == IF sl = {} THEN 0 ELSE CHOOSE i \in sl : \A j \in sl : j <= i
  IN SubSeq(path, last + 1, Len(path))

Filenames == {filenameOf(path) : path \in Paths}

\* textContent.trim() (line 126): without its leading and trailing whitespace.
trim(t) ==
  LET keep == {i \in 1..Len(t) : t[i] \notin Whitespace}
  IN IF keep = {} THEN <<>>
     ELSE SubSeq(t, CHOOSE i \in keep : \A j \in keep : i <= j,
                    CHOOSE i \in keep : \A j \in keep : j <= i)

\* A variant of IsBlank without the trim.
IsBlankUntrimmed(t) == t = <<>>

\* !textContent.trim() (line 126)
IsBlank(t) == trim(t) = <<>>

\* The embedding client: a text's vector.  The model's vectors are 0 and 1:
\* 0 for a text with an "a" in it, 1 for any other.
EmbeddingOf(t) == IF \E i \in 1..Len(t) : t[i] = "a" THEN 0 ELSE 1

\* embedding <=> $1 (line 165), on the model's vectors.
Distance(u, v) == IF u = v THEN 0 ELSE 1

\* The requests an invocation has made, in order; a request made again at
\* once (a retry) is written once.
Sent(trace, req) ==
  IF trace # <<>> /\ trace[Len(trace)] = req THEN trace ELSE Append(trace, req)

\* SELECT ... ORDER BY embedding <=> $1 LIMIT $2 (lines 163-169): the first
\* `limit` rows of any ordering of the table by ascending distance (rows at
\* the same distance come in an order the store chooses).
SearchResults(table, q, limit) ==
  LET n == Cardinality(table)
      orders == {s \in [1..n -> table] :
                   /\ \A i, j \in 1..n : i # j => s[i] # s[j]
                   /\ \A i, j \in 1..n :
                        i < j => Distance(s[i].embedding, q)
                                   <= Distance(s[j].embedding, q)}
      k == IF limit < n THEN limit ELSE n
  IN {[i \in 1..k |-> [id |-> s[i].id, filename |-> s[i].filename,
                       content |-> s[i].content,
                       similarity |-> Distance(s[i].embedding, q)]] :
        s \in orders}

\* relevantDocs.map(doc => ({filename, similarity})) (lines 223-226)
sourceDocuments(docs) ==
  [i \in 1..Len(docs) |-> [filename |-> docs[i].filename,
                           similarity |-> docs[i].similarity]]

IdleInv ==
  [op |-> "none", pc |-> "idle", arg |-> <<>>, limit |-> 0, chunks |-> <<>>,
   idx |-> 0, attempt |-> 0, vec |-> 0, ids |-> <<>>, docs |-> <<>>,
   result |-> <<>>, trace |-> <<>>, clean |-> {}]

\* The rows an addDocument of path inserts if nothing fails.
DocRows(path) ==
  IF path \in DOMAIN Files /\ ~IsBlank(Files[path])
  THEN Len(chunkText(Files[path], chunkSize)) ELSE 0

\* The rows the addDocument in slot p will still insert if nothing fails.
Pending(p) ==
  CASE inv[p].op = "add" /\ inv[p].pc = "extract" -> DocRows(inv[p].arg)
    [] inv[p].op = "add" /\ inv[p].pc \in {"embed", "insert"} ->
         Len(inv[p].chunks) - inv[p].idx + 1
    [] OTHER -> 0

RECURSIVE SumPending(_)
SumPending(P) ==
  IF P = {} THEN 0
  ELSE LET p == CHOOSE q \in P : TRUE IN Pending(p) + SumPending(P \ {p})

\* A slot in "returned" or "threw" shows what its invocation has just handed
\* to its caller; the invocation is over.  The slot is cleared (Finish)
\* before any other step is taken, so the steps below wait for it.
NoResultHeld == \A q \in Procs : inv[q].pc \notin {"returned", "threw"}

Throw(p, err) ==
  inv' = [inv EXCEPT ![p].pc = "threw", ![p].result = <<"error", err>>]

StoreInit ==
  /\ rows = {}
  /\ nextId = 1
  /\ inv = [p \in Procs |-> IdleInv]
  /\ cleanSince = {}

--------------------------------------------------------------------------
\* addDocument(filePath) is called (line 120).
StartAdd(p, path) ==
  /\ NoResultHeld
  /\ inv[p].pc = "idle"
  /\ nextId - 1 + SumPending(Procs) + DocRows(path) <= MaxIds
  /\ inv' = [q \in Procs |->
              IF q = p
              THEN [IdleInv EXCEPT !.op = "add", !.pc = "extract", !.arg = path]
              ELSE [inv[q] EXCEPT !.clean = @ \ {filenameOf(path)}]]
  /\ cleanSince' = cleanSince \ {filenameOf(path)}
  /\ UNCHANGED <<rows, nextId>>
  /\ UNCHANGED <<chunkVars, retryVars>>

\* readFileSync, await pdf(buffer), the blank check, the filename and the
\* chunks (lines 122-133).
AddExtract(p) ==
  /\ NoResultHeld
  /\ inv[p].op = "add" /\ inv[p].pc = "extract"
  /\ IF inv[p].arg \notin DOMAIN Files
     THEN Throw(p, "ENOENT")
     ELSE IF IsBlank(Files[inv[p].arg])
     THEN Throw(p, "No text content found in PDF")
     ELSE LET cs == chunkText(Files[inv[p].arg], chunkSize)
          IN IF cs = <<>>
             THEN inv' = [inv EXCEPT ![p].pc = "returned",
                                     ![p].result = <<"value", <<>> >>]
             ELSE inv' = [inv EXCEPT ![p].pc = "embed", ![p].chunks = cs,
                                     ![p].idx = 1, ![p].attempt = 0]
  /\ UNCHANGED <<rows, nextId, cleanSince>>
  /\ UNCHANGED <<chunkVars, retryVars>>

\* generateEmbedding (lines 110-118): the embeddings request resolves.
EmbedOk(p) ==
  /\ NoResultHeld
  /\ inv[p].pc = "embed"
  /\ inv' = [inv EXCEPT ![p].vec = EmbeddingOf(IF inv[p].op = "add"
                                               THEN inv[p].chunks[inv[p].idx]
                                               ELSE inv[p].arg),
                        ![p].trace = Sent(inv[p].trace, <<"embed">>),
                        ![p].attempt = 0,
                        ![p].pc = IF inv[p].op = "add" THEN "insert"
                                  ELSE "query"]
  /\ UNCHANGED <<rows, nextId, cleanSince>>
  /\ UNCHANGED <<chunkVars, retryVars>>

\* The embeddings request rejects: retryWithBackoff rethrows on the final
\* attempt and otherwise waits and tries again (lines 72-77).
EmbedFail(p) ==
  /\ NoResultHeld
  /\ inv[p].pc = "embed"
  /\ IF IsFinalAttempt(inv[p].attempt, DefaultRetries)
     THEN inv' = [inv EXCEPT ![p].pc = "threw",
                             ![p].result = <<"error", "ProviderError">>,
                             ![p].trace = Sent(inv[p].trace, <<"embed">>)]
     ELSE inv' = [inv EXCEPT ![p].attempt = @ + 1,
                             ![p].trace = Sent(inv[p].trace, <<"embed">>)]
  /\ UNCHANGED <<rows, nextId, cleanSince>>
  /\ UNCHANGED <<chunkVars, retryVars>>

\* The row of the current chunk (lines 143-147).
NewRow(p) ==
  [id |-> nextId, filename |-> filenameOf(inv[p].arg),
   content |-> inv[p].chunks[inv[p].idx], embedding |-> inv[p].vec]

\* INSERT ... RETURNING id succeeds (lines 137-148), then the loop goes on
\* to the next chunk or addDocument returns insertedIds (line 152).
AddInsertOk(p) ==
  /\ NoResultHeld
  /\ inv[p].op = "add" /\ inv[p].pc = "insert"
  /\ rows' = rows \cup {NewRow(p)}
  /\ nextId' = nextId + 1
  /\ LET ids == Append(inv[p].ids, nextId)
         tr == Sent(inv[p].trace, <<"insert">>)
     IN IF inv[p].idx = Len(inv[p].chunks)
        THEN inv' = [inv EXCEPT ![p].ids = ids, ![p].trace = tr,
                                ![p].pc = "returned",
                                ![p].result = <<"value", ids>>]
        ELSE inv' = [inv EXCEPT ![p].ids = ids, ![p].trace = tr,
                                ![p].idx = @ + 1, ![p].pc = "embed"]
  /\ UNCHANGED cleanSince
  /\ UNCHANGED <<chunkVars, retryVars>>

\* A variant of AddInsertFail that rolls the invocation's rows back.
AddInsertFailRollback(p) ==
  /\ NoResultHeld
  /\ inv[p].op = "add" /\ inv[p].pc = "insert"
  /\ inv' = [inv EXCEPT ![p].pc = "threw",
                        ![p].result = <<"error", "StoreError">>,
                        ![p].trace = Sent(inv[p].trace, <<"insert">>)]
  /\ rows' = {x \in rows : \A i \in 1..Len(inv[p].ids) : x.id # inv[p].ids[i]}
  /\ UNCHANGED <<nextId, cleanSince>>
  /\ UNCHANGED <<chunkVars, retryVars>>

\* The INSERT fails: the error propagates (lines 153-156).
AddInsertFail(p) ==
  /\ NoResultHeld
  /\ inv[p].op = "add" /\ inv[p].pc = "insert"
  /\ inv' = [inv EXCEPT ![p].pc = "threw",
                        ![p].result = <<"error", "StoreError">>,
                        ![p].trace = Sent(inv[p].trace, <<"insert">>)]
  /\ UNCHANGED <<rows, nextId, cleanSince>>
  /\ UNCHANGED <<chunkVars, retryVars>>

\* searchSimilar(query, limit) (line 159) or askAboutDocuments(question,
\* contextLimit) (line 186), which starts by calling it (line 188).
StartRetrieve(p, op, limit) ==
  /\ NoResultHeld
  /\ inv[p].pc = "idle"
  /\ inv' = [inv EXCEPT ![p] = [IdleInv EXCEPT !.op = op, !.pc = "embed",
                                               !.arg = Query, !.limit = limit,
                                               !.clean = cleanSince]]
  /\ UNCHANGED <<rows, nextId, cleanSince>>
  /\ UNCHANGED <<chunkVars, retryVars>>

\* A variant of AfterRetrieve without the check for no documents: the
\* completion request is made for any retrieval.
AfterRetrieveAlwaysCompletes(r, docs) ==
  IF r.op = "search"
  THEN [r EXCEPT !.docs = docs, !.pc = "returned",
                 !.result = <<"value", docs>>]
  ELSE [r EXCEPT !.docs = docs, !.pc = "complete", !.attempt = 0]

\* What askAboutDocuments does with the retrieved documents (lines 191-227):
\* the fixed answer when there are none, else the completion request.
AfterRetrieve(r, docs) ==
  IF r.op = "search"
  THEN [r EXCEPT !.docs = docs, !.pc = "returned",
                 !.result = <<"value", docs>>]
  ELSE IF Len(docs) = 0
  THEN [r EXCEPT !.docs = docs, !.pc = "returned",
                 !.result = <<"value", [answer |-> NoDocsAnswer,
                                        sourceDocuments |-> <<>>]>>]
  ELSE [r EXCEPT !.docs = docs, !.pc = "complete", !.attempt = 0]

\* The SELECT resolves (lines 171-179).
QueryOk(p) ==
  /\ NoResultHeld
  /\ inv[p].pc = "query" /\ inv[p].op \in {"search", "ask"}
  /\ \E docs \in SearchResults(rows, inv[p].vec, inv[p].limit) :
       inv' = [inv EXCEPT ![p] =
                 AfterRetrieve([inv[p] EXCEPT !.trace = Sent(inv[p].trace, <<"select">>)],
                               docs)]
  /\ UNCHANGED <<rows, nextId, cleanSince>>
  /\ UNCHANGED <<chunkVars, retryVars>>

\* The SELECT fails (lines 180-183).
QueryFail(p) ==
  /\ NoResultHeld
  /\ inv[p].pc = "query" /\ inv[p].op \in {"search", "ask"}
  /\ inv' = [inv EXCEPT ![p].pc = "threw",
                        ![p].result = <<"error", "StoreError">>,
                        ![p].trace = Sent(inv[p].trace, <<"select">>)]
  /\ UNCHANGED <<rows, nextId, cleanSince>>
  /\ UNCHANGED <<chunkVars, retryVars>>

\* The answer askAboutDocuments returns (lines 221-227).
AskResult(answer, docs) ==
  [answer |-> answer, sourceDocuments |-> sourceDocuments(docs)]

\* The chat completion resolves (lines 202-227).
CompleteOk(p, a) ==
  /\ NoResultHeld
  /\ inv[p].pc = "complete"
  /\ inv' = [inv EXCEPT ![p].pc = "returned",
                        ![p].trace = Sent(inv[p].trace, <<"complete">>),
                        ![p].result = <<"value", AskResult(a, inv[p].docs)>>]
  /\ UNCHANGED <<rows, nextId, cleanSince>>
  /\ UNCHANGED <<chunkVars, retryVars>>

\* The chat completion rejects, under retryWithBackoff (lines 202, 72-77).
CompleteFail(p) ==
  /\ NoResultHeld
  /\ inv[p].pc = "complete"
  /\ IF IsFinalAttempt(inv[p].attempt, DefaultRetries)
     THEN inv' = [inv EXCEPT ![p].pc = "threw",
                             ![p].result = <<"error", "ProviderError">>,
                             ![p].trace = Sent(inv[p].trace, <<"complete">>)]
     ELSE inv' = [inv EXCEPT ![p].attempt = @ + 1,
                             ![p].trace = Sent(inv[p].trace, <<"complete">>)]
  /\ UNCHANGED <<rows, nextId, cleanSince>>
  /\ UNCHANGED <<chunkVars, retryVars>>

\* deleteDocumentByFilename(filename) is called (line 252).
StartDelete(p, f) ==
  /\ NoResultHeld
  /\ inv[p].pc = "idle"
  /\ inv' = [inv EXCEPT ![p] = [IdleInv EXCEPT !.op = "delete",
                                               !.pc = "query", !.arg = f]]
  /\ UNCHANGED <<rows, nextId, cleanSince>>
  /\ UNCHANGED <<chunkVars, retryVars>>

\* A variant of DeleteMatches without the WHERE clause.
DeleteMatchesAll(table, f) == table

\* DELETE FROM documents WHERE filename = $1 (line 254): the rows it removes.
DeleteMatches(table, f) == {r \in table : r.filename = f}

\* The DELETE resolves; rowCount decides between the error and the return
\* (lines 255-262).
DeleteQuery(p) ==
  /\ NoResultHeld
  /\ inv[p].op = "delete" /\ inv[p].pc = "query"
  /\ LET gone == DeleteMatches(rows, inv[p].arg)
     IN /\ rows' = rows \ gone
        /\ IF Cardinality(gone) = 0
           THEN /\ inv' = [inv EXCEPT ![p].pc = "threw",
                             ![p].result = <<"error", "Document not found">>,
                             ![p].trace = Sent(inv[p].trace, <<"delete">>)]
                /\ UNCHANGED cleanSince
           ELSE /\ inv' = [inv EXCEPT ![p].pc = "returned",
                             ![p].result = <<"value", inv[p].arg>>,
                             ![p].trace = Sent(inv[p].trace, <<"delete">>)]
                /\ cleanSince' = cleanSince \cup {inv[p].arg}
  /\ UNCHANGED nextId
  /\ UNCHANGED <<chunkVars, retryVars>>

\* The DELETE fails (lines 263-266).
DeleteFail(p) ==
  /\ NoResultHeld
  /\ inv[p].op = "delete" /\ inv[p].pc = "query"
  /\ inv' = [inv EXCEPT ![p].pc = "threw",
                        ![p].result = <<"error", "StoreError">>,
                        ![p].trace = Sent(inv[p].trace, <<"delete">>)]
  /\ UNCHANGED <<rows, nextId, cleanSince>>
  /\ UNCHANGED <<chunkVars, retryVars>>

\* chunkText(text, maxChunkSize) called on the SDK object: synchronous.
ChunkCall(p, t, m) ==
  /\ NoResultHeld
  /\ inv[p].pc = "idle"
  /\ inv' = [inv EXCEPT ![p] = [IdleInv EXCEPT !.op = "chunk", !.arg = t,
                                  !.limit = m, !.pc = "returned",
                                  !.result = <<"value", chunkText(t, m)>>]]
  /\ UNCHANGED <<rows, nextId, cleanSince>>
  /\ UNCHANGED <<chunkVars, retryVars>>

\* The caller has its result or its error; the slot is free again.
Finish(p) ==
  /\ inv[p].pc \in {"returned", "threw"}
  /\ inv' = [inv EXCEPT ![p] = IdleInv]
  /\ UNCHANGED <<rows, nextId, cleanSince>>
  /\ UNCHANGED <<chunkVars, retryVars>>

StoreNext ==
  \/ \E p \in Procs, path \in Paths : StartAdd(p, path)
  \/ \E p \in Procs : AddExtract(p)
  \/ \E p \in Procs : EmbedOk(p)
  \/ \E p \in Procs : EmbedFail(p)
  \/ \E p \in Procs : AddInsertOk(p)
  \/ \E p \in Procs : AddInsertFail(p)
  \/ \E p \in Procs, op \in {"search", "ask"}, l \in 0..MaxLimit :
       StartRetrieve(p, op, l)
  \/ \E p \in Procs : QueryOk(p)
  \/ \E p \in Procs : QueryFail(p)
  \/ \E p \in Procs, a \in Answers : CompleteOk(p, a)
  \/ \E p \in Procs : CompleteFail(p)
  \/ \E p \in Procs, f \in Filenames : StartDelete(p, f)
  \/ \E p \in Procs : DeleteQuery(p)
  \/ \E p \in Procs : DeleteFail(p)
  \/ \E p \in Procs, t \in {<<>>, <<"a">>}, m \in {0, chunkSize} :
       ChunkCall(p, t, m)
  \/ \E p \in Procs : Finish(p)

InitStore == StoreInit /\ ChunkOff /\ RetryOff

SpecStore == InitStore /\ [][StoreNext]_vars

(***************************************************************************)
(* Properties of retryWithBackoff, under SpecRetry.                        *)
(***************************************************************************)
CountKind(ev, kind) == Cardinality({i \in 1..Len(ev) : ev[i][1] = kind})

\* C1: when fn fails on its first k invocations (k < retries) and resolves on
\* invocation k+1, retryWithBackoff returns that value after exactly k+1
\* invocations and exactly k waits, the i-th wait lasting delay * 2^i and
\* standing between failure i and invocation i+1; and a call whose fn has
\* resolved has returned.
C1_FailsThenSucceeds ==
  /\ (rpc = "returned" /\ retries >= 1) =>
       LET k == CountKind(events, "fail")
       IN /\ k < retries
          /\ Len(events) = 3 * k + 2
          /\ \A i \in 0..(k - 1) :
               /\ events[3 * i + 1] = <<"call">>
               /\ events[3 * i + 2][1] = "fail"
               /\ events[3 * i + 3] = <<"wait", delay * 2 ^ i>>
          /\ events[3 * k + 1] = <<"call">>
          /\ events[3 * k + 2][1] = "ok"
          /\ outcome = <<"value", events[3 * k + 2][2]>>
  /\ (events # <<>> /\ events[Len(events)][1] = "ok") => rpc = "returned"

\* Three failures, then success: the waits are delay, 2 * delay, 4 * delay.
C1_Witness ==
  /\ rpc = "returned"
  /\ CountKind(events, "fail") = 3
  /\ delay = 2
  /\ outcome = <<"value", "v2">>

\* C2: when fn fails on every invocation, retryWithBackoff invokes it exactly
\* `retries` times, waits exactly retries - 1 times, none of them after the
\* last failure, and throws the error of the last invocation.
C2_AlwaysFails ==
  retries >= 1 =>
    /\ rpc = "threw" =>
         /\ CountKind(events, "call") = retries
         /\ CountKind(events, "fail") = retries
         /\ CountKind(events, "ok") = 0
         /\ CountKind(events, "wait") = retries - 1
         /\ events[Len(events)][1] = "fail"
         /\ outcome = <<"error", events[Len(events)][2]>>
    /\ CountKind(events, "fail") = retries => rpc \in {"caught", "threw"}
    /\ CountKind(events, "call") <= retries

\* Three attempts, all failed, the last with another error than the first.
C2_Witness ==
  /\ rpc = "threw"
  /\ retries = 3
  /\ events[2] = <<"fail", "e1">>
  /\ outcome = <<"error", "e2">>

(***************************************************************************)
(* Properties of chunkText, under SpecChunk.                               *)
(***************************************************************************)
Range(f) == {f[i] : i \in DOMAIN f}

NonWhitespace(t) == SelectSeq(t, LAMBDA c : c \notin Whitespace)

\* The sentences of the paragraphs of the (tagged) text, a paragraph without
\* a sentence being one unit.
Units(t) ==
  UNION {Range(matchSentences(para)) : para \in Range(splitParagraphs(t))}

\* How often character i of the input stands in the chunks.
Occurrences(cs, i) ==
  Cardinality({kj \in UNION {{<<k, j>> : j \in 1..Len(cs[k])} : k \in 1..Len(cs)} :
                 cs[kj[1]][kj[2]][2] = i})

\* C3: every returned chunk is at most maxChunkSize * 4 characters long,
\* unless it is exactly one undividable unit (one sentence, or a paragraph
\* without a sentence terminator).
C3_ChunkWithinBound ==
  cpc = "returned" =>
    \A k \in 1..Len(chunks) :
      \/ Len(chunks[k]) <= maxChunkSize * 4
      \/ chunks[k] \in Units(Tag(text))

\* C4: the chunks, concatenated in order, are the input text up to
\* whitespace: the same non-whitespace characters in the same order.
C4_Lossless ==
  cpc = "returned" =>
    NonWhitespace(Untag(Concat(chunks))) = NonWhitespace(text)

\* C10: no returned chunk is empty, and every character of a paragraph that
\* fits the bound stands in the returned chunks exactly once (a flushed
\* buffer is not emitted again).
C10_EmittedOnce ==
  cpc = "returned" =>
    /\ \A k \in 1..Len(chunks) : chunks[k] # <<>>
    /\ \A para \in Range(splitParagraphs(Tag(text))) :
         Len(para) <= maxChunkSize * 4 =>
           \A e \in Range(para) : Occurrences(chunks, e[2]) = 1

(***************************************************************************)
(* Properties of the document pipeline, under SpecStore.                   *)
(***************************************************************************)
Retrieving(p) == inv[p].op \in {"search", "ask"}

\* C5: once deleteDocumentByFilename(f) has returned, a retrieval started
\* afterwards returns no row of filename f, as long as no addDocument for f
\* has been started since the delete returned.
C5_DeleteThenSearch ==
  \A p \in Procs :
    Retrieving(p) =>
      \A i \in 1..Len(inv[p].docs) : inv[p].docs[i].filename \notin inv[p].clean

\* The requests of an addDocument that has come to chunk j: embed and insert
\* in turn.
AddTrace(n) == [i \in 1..n |-> IF i % 2 = 1 THEN <<"embed">> ELSE <<"insert">>]

C6_State(p) ==
  LET r == inv[p]
      j == Len(r.ids)
      N == Len(r.chunks)
  IN /\ j <= N
     /\ \A a, b \in 1..j : a < b => r.ids[a] < r.ids[b]
     /\ r.pc = "embed" => r.idx = j + 1 /\ r.trace \in {AddTrace(2 * j),
                                                       AddTrace(2 * j + 1)}
     /\ r.pc = "insert" => r.idx = j + 1 /\ r.trace = AddTrace(2 * j + 1)
     /\ (r.pc = "returned" /\ r.chunks # <<>>) =>
          /\ j = N
          /\ r.trace = AddTrace(2 * N)
          /\ r.result = <<"value", r.ids>>
     /\ (r.pc = "threw" /\ r.chunks # <<>>) =>
          /\ j < N
          /\ \/ r.result = <<"error", "ProviderError">>
                  /\ r.trace = AddTrace(2 * j + 1)
                  /\ r.attempt = 3 - 1
             \/ r.result = <<"error", "StoreError">>
                  /\ r.trace = AddTrace(2 * j + 2)

C6_Step(p) ==
  LET r == inv[p]
      j == Len(r.ids) + 1
  IN /\ (r.op = "add" /\ r.pc \notin {"returned", "threw"} /\ inv'[p] # r
          /\ (rows' # rows \/ inv'[p].ids # r.ids)) =>
          /\ r.pc = "insert" /\ j = r.idx
          /\ r.trace = AddTrace(2 * j - 1)
          /\ inv'[p].ids = Append(r.ids, nextId)
          /\ rows' = rows \cup {[id |-> nextId,
                                filename |-> filenameOf(r.arg),
                                content |-> r.chunks[j],
                                embedding |-> EmbeddingOf(r.chunks[j])]}
          /\ nextId \notin {x.id : x \in rows}
     /\ (r.op = "add" /\ r.pc # "threw" /\ inv'[p].pc = "threw") =>
          rows' = rows /\ inv'[p].ids = r.ids
     /\ (r.op = "add" /\ r.pc \in {"returned", "threw"}) =>
          inv'[p] \in {r, IdleInv} /\ (inv'[p] # r => rows' = rows)

\* C6: addDocument takes the chunks in order, for each the embedding and then
\* the insert, so that the rows it has inserted are always those of the
\* chunks c1..cj in order, under its filename; a failed embedding (retries
\* exhausted) or insert for chunk j+1 ends the invocation with that error, no
\* further request and the j rows left in place; without a failure it returns
\* the N identifiers in chunk order.
C6_AddDocumentPrefix ==
  /\ [](\A p \in Procs : inv[p].op = "add" => C6_State(p))
  /\ [][\A p \in Procs : C6_Step(p)]_vars

\* The insert of the second of two chunks has failed; the first row is there.
C6_Witness ==
  \E p \in Procs :
    /\ inv[p].op = "add" /\ inv[p].pc = "threw"
    /\ Len(inv[p].chunks) = 2 /\ Len(inv[p].ids) = 1
    /\ inv[p].result = <<"error", "StoreError">>
    /\ \E x \in rows : x.id = inv[p].ids[1] /\ x.content = inv[p].chunks[1]

AllWhitespace(t) == \A i \in 1..Len(t) : t[i] \in Whitespace

\* C7: chunkText of the empty text returns no chunk, and addDocument of a
\* file whose text is empty or all whitespace throws before it has made any
\* request: no embedding, no insert.
C7_EmptyInput ==
  \A p \in Procs :
    /\ (inv[p].op = "chunk" /\ inv[p].arg = <<>>) =>
         inv[p].pc = "returned" /\ inv[p].result = <<"value", <<>> >>
    /\ (inv[p].op = "add" /\ inv[p].arg \in DOMAIN Files
          /\ AllWhitespace(Files[inv[p].arg]) /\ inv[p].pc # "extract") =>
         /\ inv[p].pc = "threw"
         /\ inv[p].result = <<"error", "No text content found in PDF">>
         /\ inv[p].trace = <<>>
         /\ inv[p].ids = <<>>

\* addDocument of the whitespace-only file has thrown while the table holds
\* a row and another addDocument is about to insert its second chunk.
C7_Witness ==
  \E p, q \in Procs :
    /\ inv[q].op = "add" /\ inv[q].arg = <<"w">> /\ inv[q].pc = "threw"
    /\ inv[p].op = "add" /\ inv[p].pc = "insert" /\ inv[p].idx = 2
    /\ rows # {}

\* C8: askAboutDocuments with no retrieved document returns the fixed answer
\* and no sources without a completion request; with retrieved documents it
\* makes the completion request after the embedding and the select, and its
\* sources are the filename and similarity of the retrieved documents, in
\* their order.  A limit of 0 retrieves nothing.
C8_AskAboutDocuments ==
  \A p \in Procs :
    inv[p].op = "ask" =>
      LET r == inv[p]
          asked == \E i \in 1..Len(r.trace) : r.trace[i] = <<"complete">>
      IN /\ asked => /\ r.trace = << <<"embed">>, <<"select">>, <<"complete">> >>
                     /\ Len(r.docs) > 0
         /\ r.pc = "complete" => /\ Len(r.docs) > 0
                                 /\ r.trace[1] = <<"embed">>
                                 /\ r.trace[2] = <<"select">>
         /\ r.limit = 0 => r.docs = <<>>
         /\ (r.docs = <<>> /\ r.trace = << <<"embed">>, <<"select">> >>
               /\ r.pc # "threw") =>
              /\ r.pc = "returned"
              /\ r.result = <<"value", [answer |-> NoDocsAnswer,
                                        sourceDocuments |-> <<>>]>>
         /\ (r.pc = "returned" /\ r.docs # <<>>) =>
              /\ asked
              /\ r.result[1] = "value"
              /\ r.result[2].answer \in Answers
              /\ Len(r.result[2].sourceDocuments) = Len(r.docs)
              /\ \A i \in 1..Len(r.docs) :
                   r.result[2].sourceDocuments[i] =
                     [filename |-> r.docs[i].filename,
                      similarity |-> r.docs[i].similarity]

\* An answer from two documents of different files at different distances.
C8_Witness ==
  \E p \in Procs :
    /\ inv[p].op = "ask" /\ inv[p].pc = "returned"
    /\ Len(inv[p].docs) = 2
    /\ inv[p].docs[1].filename # inv[p].docs[2].filename
    /\ inv[p].docs[1].similarity < inv[p].docs[2].similarity

C9_Step(p) ==
  LET f == inv[p].arg
      r == inv'[p]
      hit == \E x \in rows : x.filename = f
  IN (inv[p].op = "delete" /\ inv[p].pc = "query" /\ r # inv[p]) =>
       \/ r.pc = "threw" /\ r.result = <<"error", "StoreError">> /\ rows' = rows
       \/ /\ ~hit
          /\ r.pc = "threw" /\ r.result = <<"error", "Document not found">>
          /\ rows' = rows
       \/ /\ hit
          /\ r.pc = "returned" /\ r.result = <<"value", f>>
          /\ rows' = {x \in rows : x.filename # f}

\* C9: deleteDocumentByFilename(f), once the store has run the DELETE, throws
\* the not-found error and leaves the table as it was when no row has
\* filename f, and else removes exactly the rows of filename f and returns f
\* (when the store fails the DELETE, it throws that error and the table is as
\* it was).
C9_DeleteByFilename == [][\A p \in Procs : C9_Step(p)]_vars

\* A delete has returned and the row of the other file is still there.
C9_Witness ==
  \E p \in Procs :
    /\ inv[p].op = "delete" /\ inv[p].pc = "returned"
    /\ nextId = 3
    /\ \A q \in Procs \ {p} : inv[q].pc = "idle"
    /\ \E x \in rows : x.filename # inv[p].arg /\ rows = {x}

====
